---- MODULE Spec2Model ----
(***************************************************************************)
(* Model of fdmm-tools' regenerateVisitor: the tool that backs up an       *)
(* ANTLR visitor file, regenerates it, and merges the hand-written method  *)
(* bodies of the backup into the regenerated file.  Two variants of the    *)
(* tool are modelled: "base" (src/regenerateVisitor.js) and "imports"      *)
(* (src/unnamed/part_000, which also merges require( lines).               *)
(*                                                                         *)
(* A text line is a sequence of one-character strings, so that the         *)
(* String methods the code uses (includes, indexOf, substring, string      *)
(* destructuring) are computed on the characters.                          *)
(***************************************************************************)
EXTENDS Integers, Sequences, FiniteSets, TLC

VARIABLES
    \* stub extraction, step by step (populateVisitorFunctions)
    xlines, xindex, xfunctions, scan, xout,
    \* the merge step (mergeOldVisitorContentsIfDifferent)
    variant, oldVisitor, visitor, mergedVisitor, mpc, round, firstOutput,
    \* the files on disk: <grammar>Visitor.js and <grammar>Visitor.js.old
    fsVisitor, fsOld,
    \* the orchestrator (main)
    pc, argv, genOutput, origFile, stages, err, exitCode, runs

extractVars == <<xlines, xindex, xfunctions, scan, xout>>
mergeVars == <<oldVisitor, visitor, mergedVisitor, mpc, round, firstOutput>>
diskVars == <<fsVisitor, fsOld>>
orchVars == <<pc, argv, genOutput, origFile, err, exitCode, runs>>
vars == <<extractVars, variant, mergeVars, diskVars, stages, orchVars>>

----------------------------------------------------------------------------
(* Bounds of the model *)

\* longest file of the extraction specification, in lines
MaxLen == 4
\* longest hand-written stub body of the merge specification, in lines
MaxBody == 2
\* longest generated stub body of the merge specification, in lines
MaxGen == 2
\* invocations of the tool in one behaviour of the orchestrator
MaxRuns == 2

----------------------------------------------------------------------------
(* Text lines *)

\* '// G'
Header0 ==
    <<"/", "/", " ", "G">>
\* '// j'
Header1 ==
    <<"/", "/", " ", "j">>
\* "var a = require('a');"
ReqAntlr ==
    <<"v", "a", "r", " ", "a", " ", "=", " ", "r", "e", "q", "u", "i", "r", "e", "(", "'", "a", "'", ")", ";">>
\* "var u = require('u');"
ReqUser ==
    <<"v", "a", "r", " ", "u", " ", "=", " ", "r", "e", "q", "u", "i", "r", "e", "(", "'", "u", "'", ")", ";">>
\* 'vA = function(ctx) {'
DeclA ==
    <<"v", "A", " ", "=", " ", "f", "u", "n", "c", "t", "i", "o", "n", "(", "c", "t", "x", ")", " ", "{">>
\* 'vB = function(ctx) {'
DeclB ==
    <<"v", "B", " ", "=", " ", "f", "u", "n", "c", "t", "i", "o", "n", "(", "c", "t", "x", ")", " ", "{">>
\* 'vC = function(ctx) {'
DeclC ==
    <<"v", "C", " ", "=", " ", "f", "u", "n", "c", "t", "i", "o", "n", "(", "c", "t", "x", ")", " ", "{">>
\* '  return null;'
Gen ==
    <<" ", " ", "r", "e", "t", "u", "r", "n", " ", "n", "u", "l", "l", ";">>
\* 'e1;'
Edit1 ==
    <<"e", "1", ";">>
\* 'e2;'
Edit2 ==
    <<"e", "2", ";">>
\* '};'
Close ==
    <<"}", ";">>
\* 'if {'
IfOpen ==
    <<"i", "f", " ", "{">>
\* 'if { {'
Open2 ==
    <<"i", "f", " ", "{", " ", "{">>
\* '}'
Close1 ==
    <<"}">>
\* '}}'
Close2 ==
    <<"}", "}">>
\* the empty line
Blank == <<>>

\* JavaScript's undefined where a line is expected (an array read out of
\* range, Map.get of a missing key).  No line has an empty character.
Undefined == <<"">>

\* 'function(ctx)': the text that makes a line a stub's declaring line
FUNCTION_MARK ==
    <<"f", "u", "n", "c", "t", "i", "o", "n", "(", "c", "t", "x", ")">>
\* 'require(': the text that makes a line an import line
REQUIRE_MARK ==
    <<"r", "e", "q", "u", "i", "r", "e", "(">>

----------------------------------------------------------------------------
(* JavaScript String and Array methods, as the code uses them *)

Min(a, b) == IF a < b THEN a ELSE b
Max(a, b) == IF a > b THEN a ELSE b

\* String.prototype.includes(pat)
Includes(line, pat) ==
    \E i \in 0..(Len(line) - Len(pat)) : SubSeq(line, i + 1, i + Len(pat)) = pat

\* String.prototype.indexOf(ch) for a one-character ch: 0-based, -1 if absent
IndexOf(line, ch) ==
    IF \E i \in 1..Len(line) : line[i] = ch
    THEN (CHOOSE i \in 1..Len(line) :
              line[i] = ch /\ \A j \in 1..(i - 1) : line[j] # ch) - 1
    ELSE -1

\* String.prototype.substring(0, end): a negative end counts as 0
Substring0(line, end) == SubSeq(line, 1, Max(0, Min(end, Len(line))))

\* the number of occurrences of character ch in a line
RECURSIVE Count(_, _)
Count(line, ch) ==
    IF line = <<>> THEN 0
    ELSE (IF Head(line) = ch THEN 1 ELSE 0) + Count(Tail(line), ch)

\* Array.prototype.slice(1, -1)
Slice1(s) == SubSeq(s, 2, Len(s) - 1)

\* Array.prototype.splice(start, del, ...items), the array afterwards
Splice(s, start, del, items) ==
    LET st == Min(start, Len(s))
        dl == Min(del, Len(s) - st)
    IN  SubSeq(s, 1, st) \o items \o SubSeq(s, st + dl + 1, Len(s))

\* array[i] for a 0-based i: undefined out of range
At(s, i) == IF i >= 0 /\ i < Len(s) THEN s[i + 1] ELSE Undefined

\* a Map in insertion order: a sequence of [name, body] entries
MapHas(m, k) == \E i \in 1..Len(m) : m[i].name = k
MapGet(m, k) ==
    IF MapHas(m, k)
    THEN m[CHOOSE i \in 1..Len(m) : m[i].name = k].body
    ELSE <<Undefined>>
\* Map.prototype.set: an existing key keeps its place
MapSet(m, k, b) ==
    IF MapHas(m, k)
    THEN [i \in 1..Len(m) |-> IF m[i].name = k THEN [name |-> k, body |-> b] ELSE m[i]]
    ELSE Append(m, [name |-> k, body |-> b])
MapKeys(m) == [i \in 1..Len(m) |-> m[i].name]

\* a Set in insertion order: a sequence without duplicates
SetAdd(s, x) == IF \E i \in 1..Len(s) : s[i] = x THEN s ELSE Append(s, x)

RECURSIVE SetAddAll(_, _)
SetAddAll(s, xs) ==
    IF xs = <<>> THEN s ELSE SetAddAll(SetAdd(s, Head(xs)), Tail(xs))

\* what data.toString().split('\n') gives back of lines.join('\n'): an
\* undefined element is joined as the empty string, an empty array as ''
JoinSplit(ls) ==
    IF ls = <<>> THEN <<Blank>>
    ELSE [i \in 1..Len(ls) |-> IF ls[i] = Undefined THEN Blank ELSE ls[i]]

----------------------------------------------------------------------------
(* Stub extraction *)

\* line.includes('function(ctx)')
IsDecl(line) == Includes(line, FUNCTION_MARK)

\* line.substring(0, line.indexOf('=') - 1)
FunctionName(line) == Substring0(line, IndexOf(line, "=") - 1)

\* getFunctionBody's locals before the do-while loop
ScanInit(currentIndex) ==
    [idx |-> currentIndex, numBraces |-> 0, functionBody |-> <<>>,
     status |-> "run", lastRead |-> -1]

IncOnOpen(line) == IF Includes(line, <<"{">>) THEN 1 ELSE 0
DecOnClose(line) == IF Includes(line, <<"}">>) THEN 1 ELSE 0

\* one iteration of getFunctionBody's do-while loop.  Reading lines[idx] at
\* or past the end gives undefined, on which .includes throws a TypeError.
ScanStep(lines, s) ==
    IF s.idx >= Len(lines)
    THEN [s EXCEPT !.status = "threw", !.lastRead = s.idx,
                   !.functionBody = Append(s.functionBody, Undefined)]
    ELSE LET line == lines[s.idx + 1]
             nb == s.numBraces + IncOnOpen(line) - DecOnClose(line)
         IN  [idx |-> s.idx + 1, numBraces |-> nb,
              functionBody |-> Append(s.functionBody, line),
              status |-> IF nb > 0 THEN "run" ELSE "done",
              lastRead |-> s.idx]

RECURSIVE ScanRun(_, _)
ScanRun(lines, s) ==
    IF s.status = "run" THEN ScanRun(lines, ScanStep(lines, s)) ELSE s

\* getFunctionBody: [threw, body]; body is functionBody.slice(1, -1)
getFunctionBody(lines, currentIndex) ==
    LET s == ScanRun(lines, ScanInit(currentIndex))
    IN  [threw |-> s.status = "threw", body |-> Slice1(s.functionBody)]

\* populateVisitorFunctions from index i on: [threw, functions]
RECURSIVE populateFrom(_, _, _)
populateFrom(lines, i, functions) ==
    IF i >= Len(lines) THEN [threw |-> FALSE, functions |-> functions]
    ELSE IF IsDecl(lines[i + 1])
    THEN LET r == getFunctionBody(lines, i)
         IN  IF r.threw THEN [threw |-> TRUE, functions |-> functions]
             ELSE populateFrom(lines, i + 1,
                               MapSet(functions, FunctionName(lines[i + 1]), r.body))
    ELSE populateFrom(lines, i + 1, functions)

populateVisitorFunctions(lines) == populateFrom(lines, 0, <<>>)

\* populateVisitorImports: the lines that include 'require(', as a Set
populateVisitorImports(lines) ==
    SetAddAll(<<>>, SelectSeq(lines, LAMBDA l : Includes(l, REQUIRE_MARK)))

----------------------------------------------------------------------------
(* Values of the variables a specification does not use *)

NoScan ==
    [idx |-> 0, numBraces |-> 0, functionBody |-> <<>>, status |-> "none",
     lastRead |-> -1]
NoFile == <<>>
EmptyVisitor == [lines |-> <<>>, functions |-> <<>>, imports |-> <<>>]

IdleExtract ==
    /\ xlines = <<>> /\ xindex = 0 /\ xfunctions = <<>> /\ scan = NoScan
    /\ xout = "idle"
IdleMerge ==
    /\ oldVisitor = EmptyVisitor /\ visitor = EmptyVisitor
    /\ mergedVisitor = EmptyVisitor
    /\ mpc = "idle" /\ round = 0 /\ firstOutput = NoFile
IdleOrch ==
    /\ pc = "idle" /\ argv = <<>> /\ genOutput = NoFile /\ origFile = NoFile
    /\ err = "null" /\ exitCode = 0 /\ runs = 0

----------------------------------------------------------------------------
(* Specification SpecExtract: populateVisitorFunctions and getFunctionBody, *)
(* one loop iteration per step, on every file of at most MaxLen lines.     *)

ExtractAlphabet == {DeclA, IfOpen, Open2, Close1, Close2, Edit1}

RECURSIVE SeqsUpTo(_, _)
SeqsUpTo(S, n) ==
    IF n = 0 THEN {<<>>}
    ELSE LET shorter == SeqsUpTo(S, n - 1)
         IN  shorter \cup {Append(q, x) : q \in {r \in shorter : Len(r) = n - 1}, x \in S}

ExtractFiles == SeqsUpTo(ExtractAlphabet, MaxLen) \ {<<>>}

InitExtract ==
    /\ xlines \in ExtractFiles
    /\ xindex = 0
    /\ xfunctions = <<>>
    /\ scan = NoScan
    /\ xout = "running"
    /\ variant = "base"
    /\ IdleMerge
    /\ fsVisitor = NoFile /\ fsOld = NoFile /\ stages = <<>>
    /\ IdleOrch

\* what the extraction steps leave alone
XFrame == UNCHANGED <<variant, mergeVars, diskVars, stages, orchVars>>

\* eachOfSeries on a line that is no declaring line: callback(null)
XSkip ==
    /\ xout = "running" /\ scan.status = "none"
    /\ xindex < Len(xlines)
    /\ ~IsDecl(xlines[xindex + 1])
    /\ xindex' = xindex + 1
    /\ UNCHANGED <<xlines, xfunctions, scan, xout>>
    /\ XFrame

\* eachOfSeries on a declaring line: getFunctionBody is entered
XScanStart ==
    /\ xout = "running" /\ scan.status = "none"
    /\ xindex < Len(xlines)
    /\ IsDecl(xlines[xindex + 1])
    /\ scan' = ScanInit(xindex)
    /\ UNCHANGED <<xlines, xindex, xfunctions, xout>>
    /\ XFrame

\* one iteration of the do-while loop
XScanStep ==
    /\ xout = "running" /\ scan.status = "run"
    /\ scan' = ScanStep(xlines, scan)
    /\ UNCHANGED <<xlines, xindex, xfunctions, xout>>
    /\ XFrame

\* callback(null, functionBody.slice(1, -1)); visitor.functions.set
XDeliver ==
    /\ xout = "running" /\ scan.status = "done"
    /\ xfunctions' = MapSet(xfunctions, FunctionName(xlines[xindex + 1]),
                            Slice1(scan.functionBody))
    /\ xindex' = xindex + 1
    /\ scan' = NoScan
    /\ UNCHANGED <<xlines, xout>>
    /\ XFrame

\* the TypeError of undefined.includes leaves getFunctionBody: no callback
XThrow ==
    /\ xout = "running" /\ scan.status = "threw"
    /\ xout' = "threw"
    /\ UNCHANGED <<xlines, xindex, xfunctions, scan>>
    /\ XFrame

\* eachOfSeries is through the lines: callback(null)
XDone ==
    /\ xout = "running" /\ scan.status = "none"
    /\ xindex >= Len(xlines)
    /\ xout' = "done"
    /\ UNCHANGED <<xlines, xindex, xfunctions, scan>>
    /\ XFrame

NextExtract == XSkip \/ XScanStart \/ XScanStep \/ XDeliver \/ XThrow \/ XDone

SpecExtract == InitExtract /\ [][NextExtract]_vars

\* the running depth over lines i..j (0-based), every occurrence counted
RECURSIVE Depth(_, _, _)
Depth(lines, i, j) ==
    IF j < i THEN 0
    ELSE Depth(lines, i, j - 1)
         + Count(lines[j + 1], "{") - Count(lines[j + 1], "}")

\* line j closes the stub declared at line i: the depth is positive from
\* the declaring line on and is back at zero at line j, for the first time
ClosesAt(lines, i, j) ==
    /\ j > i /\ j < Len(lines)
    /\ Depth(lines, i, j) = 0
    /\ \A m \in i..(j - 1) : Depth(lines, i, m) > 0

WellFormedStub(lines, i) == \E j \in i..(Len(lines) - 1) : ClosesAt(lines, i, j)

ScanEnded == scan.status \in {"done", "threw"}

\* C7: for a well-formed stub getFunctionBody returns exactly the lines
\* strictly between the declaring line and the first line at which the
\* running depth, counting every { and } of a line, is back at zero.
C7_BodyIsSpan ==
    (ScanEnded /\ WellFormedStub(xlines, xindex)) =>
        /\ scan.status = "done"
        /\ \E j \in xindex..(Len(xlines) - 1) :
               /\ ClosesAt(xlines, xindex, j)
               /\ Slice1(scan.functionBody) = SubSeq(xlines, xindex + 2, j)

\* C8: on a span whose depth is never back at zero before the end of the
\* file, extraction ends in an error given to the caller's callback, and no
\* line index at or past the number of lines is read.
C8_UnbalancedFails ==
    (ScanEnded /\ \A j \in xindex..(Len(xlines) - 1) : Depth(xlines, xindex, j) > 0) =>
        /\ scan.status = "error"
        /\ scan.lastRead < Len(xlines)

----------------------------------------------------------------------------
(* The merge step: parse, compare, merge, serialize *)

\* parseVisitor after a successful read: lines, then functions, then (in the
\* imports variant) imports.  threw: getFunctionBody's TypeError.
parseVisitor(var, data) ==
    LET f == populateVisitorFunctions(data)
    IN  [threw |-> f.threw,
         visitor |-> [lines |-> data,
                      functions |-> f.functions,
                      imports |-> IF var = "imports"
                                  THEN populateVisitorImports(data)
                                  ELSE <<>>]]

\* equalVisitors of src/regenerateVisitor.js: the sizes, then every line of
\* every body of v0 against the line of v1's body at the same index
equalVisitorsBase(v0, v1) ==
    /\ Len(v0.functions) = Len(v1.functions)
    /\ \A e \in 1..Len(v0.functions) :
           /\ MapHas(v1.functions, v0.functions[e].name)
           /\ \A index \in 0..(Len(v0.functions[e].body) - 1) :
                  At(v0.functions[e].body, index)
                      = At(MapGet(v1.functions, v0.functions[e].name), index)

Digits == {"0", "1", "2", "3", "4", "5", "6", "7", "8", "9"}
DigitVal(c) == CHOOSE d \in 0..9 : <<"0", "1", "2", "3", "4", "5", "6", "7", "8", "9">>[d + 1] = c

\* v1.lines[index] for a one-character (or undefined) property name
PropertyOf(lines, index) ==
    IF index \in Digits THEN At(lines, DigitVal(index)) ELSE Undefined

\* equalVisitors of the imports variant.  lines.size is undefined on both
\* arrays; [index, line] destructures each line of v0 (a string) into its
\* first and second character, and line != v1.lines[index] compares the
\* second character with the property of v1.lines the first one names.
equalVisitorsImports(v0, v1) ==
    \A i \in 1..Len(v0.lines) :
        LET str == v0.lines[i]
            index == IF Len(str) >= 1 THEN str[1] ELSE "undefined"
            line == IF Len(str) >= 2 THEN <<str[2]>> ELSE Undefined
        IN  line = PropertyOf(v1.lines, index)

equalVisitors(var, v0, v1) ==
    IF var = "base" THEN equalVisitorsBase(v0, v1) ELSE equalVisitorsImports(v0, v1)

\* mergeFunctions: async.each over the new model's Map, in its order
RECURSIVE mergeFunctionsFrom(_, _, _)
mergeFunctionsFrom(oldFunctions, entries, merged) ==
    IF entries = <<>> THEN merged
    ELSE LET functionName == Head(entries).name
             mergedFunctionBody ==
                 IF MapHas(oldFunctions, functionName)
                 THEN MapGet(oldFunctions, functionName)
                 ELSE Head(entries).body
         IN  mergeFunctionsFrom(oldFunctions, Tail(entries),
                                MapSet(merged, functionName, mergedFunctionBody))

\* a merge that keeps every generated body, whatever the old model holds
mergeFunctionsKeepNew(oldV, v) == v.functions

mergeFunctions(oldV, v) == mergeFunctionsFrom(oldV.functions, v.functions, <<>>)

\* mergeImports: a copy of the old Set, then every import of the new one
mergeImports(oldV, v) == SetAddAll(oldV.imports, v.imports)

\* mergeLines' loop body at index i, and the loop from i down to 0
RECURSIVE mergeLinesFrom(_, _, _)
mergeLinesFrom(lines, i, functions) ==
    IF i < 0 THEN lines
    ELSE IF IsDecl(At(lines, i))
    THEN LET functionName == FunctionName(At(lines, i))
             mergedFunctionBody == MapGet(functions, functionName)
             removed == Splice(lines, i + 1, 1, <<>>)
         IN  mergeLinesFrom(Splice(removed, i + 1, 0, mergedFunctionBody),
                            i - 1, functions)
    ELSE mergeLinesFrom(lines, i - 1, functions)

\* mergeLines: the new lines, (imports variant) the merged imports spliced
\* over the line at index 2, then the bodies spliced in from the end
mergeLines(var, v, merged) ==
    LET copied == v.lines
        withImports == IF var = "imports"
                       THEN Splice(copied, 2, 1, merged.imports)
                       ELSE copied
    IN  mergeLinesFrom(withImports, Len(withImports) - 1, merged.functions)

----------------------------------------------------------------------------
(* The merge step as actions.  mpc is the place in                         *)
(* mergeOldVisitorContentsIfDifferent's waterfall.                         *)

\* what the merge step leaves alone
MFrame == UNCHANGED <<extractVars, variant, orchVars>>

\* parseVisitor(oldVisitorFile, oldVisitor, ...)
MParseOld ==
    /\ mpc = "start"
    /\ \E readOk \in BOOLEAN :
          IF ~readOk
          THEN /\ mpc' = "readFailed"
               /\ stages' = Append(stages, "read.err")
               /\ UNCHANGED oldVisitor
          ELSE LET r == parseVisitor(variant, fsOld)
               IN  /\ mpc' = IF r.threw THEN "threw" ELSE "parsedOld"
                   /\ oldVisitor' = r.visitor
                   /\ stages' = Append(stages, "read.ok")
    /\ UNCHANGED <<visitor, mergedVisitor, round, firstOutput, diskVars>>
    /\ MFrame

\* parseVisitor(visitorFile, visitor, ...)
MParseNew ==
    /\ mpc = "parsedOld"
    /\ \E readOk \in BOOLEAN :
          IF ~readOk
          THEN /\ mpc' = "readFailed"
               /\ stages' = Append(stages, "read.err")
               /\ UNCHANGED visitor
          ELSE LET r == parseVisitor(variant, fsVisitor)
               IN  /\ mpc' = IF r.threw THEN "threw" ELSE "parsedNew"
                   /\ visitor' = r.visitor
                   /\ stages' = Append(stages, "read.ok")
    /\ UNCHANGED <<oldVisitor, mergedVisitor, round, firstOutput, diskVars>>
    /\ MFrame

\* mergeAndGenerateIfDifferent: equalVisitors decides skip or merge
MEqual ==
    /\ mpc = "parsedNew"
    /\ mpc' = IF equalVisitors(variant, oldVisitor, visitor)
              THEN "skipped" ELSE "merging"
    /\ UNCHANGED <<oldVisitor, visitor, mergedVisitor, round, firstOutput,
                   diskVars, stages>>
    /\ MFrame

MMergeFunctions ==
    /\ mpc = "merging"
    /\ mergedVisitor' = [mergedVisitor EXCEPT
                             !.functions = mergeFunctions(oldVisitor, visitor)]
    /\ mpc' = IF variant = "imports" THEN "mergeImports" ELSE "mergeLines"
    /\ UNCHANGED <<oldVisitor, visitor, round, firstOutput, diskVars, stages>>
    /\ MFrame

MMergeImports ==
    /\ mpc = "mergeImports"
    /\ mergedVisitor' = [mergedVisitor EXCEPT
                             !.imports = mergeImports(oldVisitor, visitor)]
    /\ mpc' = "mergeLines"
    /\ UNCHANGED <<oldVisitor, visitor, round, firstOutput, diskVars, stages>>
    /\ MFrame

MMergeLines ==
    /\ mpc = "mergeLines"
    /\ mergedVisitor' = [mergedVisitor EXCEPT
                             !.lines = mergeLines(variant, visitor, mergedVisitor)]
    /\ mpc' = "generate"
    /\ UNCHANGED <<oldVisitor, visitor, round, firstOutput, diskVars, stages>>
    /\ MFrame

\* generateVisitorFile: fs.writeFile(visitorFile, lines.join('\n'))
MGenerate ==
    /\ mpc = "generate"
    /\ \E writeOk \in BOOLEAN :
          IF writeOk
          THEN /\ fsVisitor' = JoinSplit(mergedVisitor.lines)
               /\ mpc' = "written"
               /\ stages' = Append(stages, "write.ok")
          ELSE /\ mpc' = "writeFailed"
               /\ stages' = Append(stages, "write.err")
               /\ UNCHANGED fsVisitor
    /\ UNCHANGED <<oldVisitor, visitor, mergedVisitor, round, firstOutput, fsOld>>
    /\ MFrame

MergeStep ==
    \/ MParseOld
    \/ MParseNew
    \/ MEqual
    \/ MMergeFunctions
    \/ MMergeImports
    \/ MMergeLines
    \/ MGenerate

----------------------------------------------------------------------------
(* Specification SpecMerge: the merge step on every pair of an edited old  *)
(* file and a regenerated new file, in both variants, followed by a second *)
(* merge of the written output against itself.                             *)

\* the first lines of a generated visitor file; the require is at index 2
Prologue == <<Header0, Header1, ReqAntlr>>

Stub(decl, body) == <<decl>> \o body \o <<Close>>

\* a hand-written body of k lines
EditBody(k) == [i \in 1..k |-> IF i % 2 = 1 THEN Edit1 ELSE Edit2]

\* the bodies of an old file: edited ones of every length, and the generated one
OldBodies == {EditBody(k) : k \in 0..MaxBody} \cup {<<Gen>>}
GenBodies == {[i \in 1..k |-> Gen] : k \in 0..MaxGen}
OldImports == {<<>>, <<ReqUser>>}

\* an old file whose last stub was left without its closing line
UnclosedFile == Prologue \o <<DeclA, Edit1>>

MergeOldFiles ==
    {Prologue \o imp \o Stub(DeclA, a) : imp \in OldImports, a \in OldBodies}
    \cup {Prologue \o imp \o Stub(DeclA, a) \o Stub(DeclB, b) :
              imp \in OldImports, a \in OldBodies, b \in OldBodies}
    \cup {UnclosedFile}

MergeNewFiles ==
    {Prologue \o Stub(DeclA, g) : g \in GenBodies}
    \cup {Prologue \o Stub(DeclB, g) \o Stub(DeclA, h) : g \in GenBodies, h \in GenBodies}
    \cup {Prologue \o Stub(DeclB, g) \o Stub(DeclC, h) : g \in GenBodies, h \in GenBodies}

InitMerge ==
    /\ IdleExtract
    /\ variant \in {"base", "imports"}
    /\ fsOld \in MergeOldFiles
    /\ fsVisitor \in MergeNewFiles
    /\ oldVisitor = EmptyVisitor /\ visitor = EmptyVisitor
    /\ mergedVisitor = EmptyVisitor
    /\ mpc = "start" /\ round = 1 /\ firstOutput = NoFile
    /\ stages = <<>>
    /\ IdleOrch

\* the written output taken as both the old and the new file of a second
\* merge step, with fresh model objects
MRemerge ==
    /\ mpc = "written" /\ round = 1
    /\ firstOutput' = fsVisitor
    /\ fsOld' = fsVisitor
    /\ round' = 2
    /\ mpc' = "start"
    /\ oldVisitor' = EmptyVisitor /\ visitor' = EmptyVisitor
    /\ mergedVisitor' = EmptyVisitor
    /\ stages' = <<>>
    /\ UNCHANGED fsVisitor
    /\ MFrame

NextMerge == MergeStep \/ MRemerge

SpecMerge == InitMerge /\ [][NextMerge]_vars

\* mergeFunctions has run in this merge step
FunctionsMerged == mpc \in {"mergeImports", "mergeLines", "generate", "written", "writeFailed"}

\* C1: the merged stub map has exactly the new model's stub names, in the
\* new model's order; a name the old model has maps to the old body, any
\* other name to the new body; a name only the old model has is absent.
C1_MergePolicy ==
    FunctionsMerged =>
        /\ MapKeys(mergedVisitor.functions) = MapKeys(visitor.functions)
        /\ \A i \in 1..Len(mergedVisitor.functions) :
               LET n == mergedVisitor.functions[i].name
               IN  mergedVisitor.functions[i].body =
                       IF \E j \in 1..Len(oldVisitor.functions) :
                              oldVisitor.functions[j].name = n
                       THEN oldVisitor.functions[
                                CHOOSE j \in 1..Len(oldVisitor.functions) :
                                    oldVisitor.functions[j].name = n].body
                       ELSE visitor.functions[i].body
        /\ \A j \in 1..Len(oldVisitor.functions) :
               (~\E i \in 1..Len(visitor.functions) :
                     visitor.functions[i].name = oldVisitor.functions[j].name)
               => ~\E i \in 1..Len(mergedVisitor.functions) :
                      mergedVisitor.functions[i].name = oldVisitor.functions[j].name

\* a merge of an old model with vA, vB and a new model with vB, vC whose
\* vB bodies differ: one name kept, one dropped, one adopted
C1_Witness ==
    /\ FunctionsMerged
    /\ MapKeys(oldVisitor.functions) = <<FunctionName(DeclA), FunctionName(DeclB)>>
    /\ MapKeys(visitor.functions) = <<FunctionName(DeclB), FunctionName(DeclC)>>
    /\ MapGet(oldVisitor.functions, FunctionName(DeclB)) = <<Edit1, Edit2>>
    /\ MapGet(visitor.functions, FunctionName(DeclB)) = <<Gen>>
    /\ MapGet(mergedVisitor.functions, FunctionName(DeclB)) = <<Edit1, Edit2>>

\* two stub maps with the same names and line-for-line identical bodies
SameStubs(f0, f1) ==
    /\ Len(f0) = Len(f1)
    /\ \A e \in 1..Len(f0) :
           \E k \in 1..Len(f1) : f1[k].name = f0[e].name /\ f1[k].body = f0[e].body

Compared == mpc \in {"skipped", "merging"}

\* C2: in the base variant equalVisitors reports true exactly when the two
\* models have the same number of stubs and every stub of v0 has a stub of
\* the same name in v1 with a body of the same length and the same lines.
C2_EqualIffSameStubs ==
    (variant = "base" /\ Compared) =>
        ((mpc = "skipped") <=> SameStubs(oldVisitor.functions, visitor.functions))

\* C3: in the imports variant, models with the same stub names and
\* identical bodies are reported equal and the merge is skipped.
C3_SameStubsSkip ==
    (variant = "imports" /\ Compared
         /\ SameStubs(oldVisitor.functions, visitor.functions))
        => mpc = "skipped"

\* C6: in the imports variant, merging a written merge output against
\* itself leaves the visitor file's lines as they were.
C6_RemergeFixpoint ==
    (variant = "imports" /\ round = 2) => fsVisitor = firstOutput

\* C9: re-extracting mergeLines' output gives the merged stub map back, for
\* a generated body of any length.
C9_BodiesReplaced ==
    (mpc = "generate" /\ round = 1) =>
        LET again == populateVisitorFunctions(mergedVisitor.lines)
        IN  /\ ~again.threw
            /\ again.functions = mergedVisitor.functions

----------------------------------------------------------------------------
(* Specification Spec: the orchestrator (main), invoked up to MaxRuns      *)
(* times on the same grammar with no manual edit in between.  Every file   *)
(* operation and the generator may fail.                                   *)

\* 'g.g4' and 'g.txt'
GrammarG4 == <<"g", ".", "g", "4">>
GrammarTxt == <<"g", ".", "t", "x", "t">>
\* '.g4'
GRAMMAR_EXTENSION == <<".", "g", "4">>

\* process.argv: node, the script, and the arguments
ArgvNone == <<<<"n">>, <<"s">>>>
ArgvTxt == <<<<"n">>, <<"s">>, GrammarTxt>>
ArgvG4 == <<<<"n">>, <<"s">>, GrammarG4>>

\* path.extname of a file name: from its last '.', unless that is its first
\* character or there is none
ExtName(name) ==
    LET dots == {i \in 1..Len(name) : name[i] = "."}
    IN  IF dots = {} THEN <<>>
        ELSE LET last == CHOOSE i \in dots : \A j \in dots : j <= i
             IN  IF last = 1 THEN <<>> ELSE SubSeq(name, last, Len(name))

\* async.waterfall: a task's error ends the waterfall at its final callback,
\* which up the chain is handleError; no error runs the next task
\* a waterfall that goes on after a failed copy
WaterfallPastCopyError(e, next) ==
    IF e # "null" /\ e # "Could not rename" THEN "handleError" ELSE next

WaterfallNext(e, next) == IF e # "null" THEN "handleError" ELSE next

\* the exit status of a run that reaches handleError: handleError logs and
\* sets no exit code, and the process ends when nothing is left to run
HandledExitStatus(e) == 0
\* the exit status of a run ended by an uncaught exception
UncaughtExitStatus == 1

OrchOldFiles ==
    {Prologue \o imp \o Stub(DeclA, a) \o Stub(DeclB, <<Gen>>) :
         imp \in OldImports, a \in OldBodies}
    \cup {UnclosedFile}

\* what the generator writes for the grammar: one line per stub body
OrchGenFiles ==
    {Prologue \o Stub(DeclA, <<Gen>>) \o Stub(DeclB, <<Gen>>),
     Prologue \o Stub(DeclB, <<Gen>>) \o Stub(DeclC, <<Gen>>)}

Init ==
    /\ IdleExtract
    /\ variant \in {"base", "imports"}
    /\ argv \in {ArgvNone, ArgvTxt, ArgvG4}
    /\ fsVisitor \in OrchOldFiles \cup {NoFile}
    /\ origFile = fsVisitor
    /\ fsOld = NoFile
    /\ genOutput \in OrchGenFiles
    /\ oldVisitor = EmptyVisitor /\ visitor = EmptyVisitor
    /\ mergedVisitor = EmptyVisitor
    /\ mpc = "idle" /\ round = 0 /\ firstOutput = NoFile
    /\ pc = "verifyArgs" /\ stages = <<>> /\ err = "null" /\ exitCode = 0
    /\ runs = 1

\* what the orchestrator's own steps leave alone
OFrame == UNCHANGED <<extractVars, variant, oldVisitor, visitor, mergedVisitor,
                      round, firstOutput, argv, genOutput, origFile, runs>>

\* verifyNumberOfArguments
VerifyNumberOfArguments ==
    /\ pc = "verifyArgs"
    /\ LET e == IF Len(argv) < 3 THEN "Not enough arguments" ELSE "null"
       IN  /\ err' = e
           /\ pc' = WaterfallNext(e, "verifyExt")
           /\ stages' = Append(stages, IF e = "null" THEN "args.ok" ELSE "args.err")
    /\ UNCHANGED <<mpc, diskVars, exitCode>>
    /\ OFrame

\* verifyFileExtension
VerifyFileExtension ==
    /\ pc = "verifyExt"
    /\ LET e == IF ExtName(argv[3]) # GRAMMAR_EXTENSION
                THEN "Expected extension" ELSE "null"
       IN  /\ err' = e
           /\ pc' = WaterfallNext(e, "rename")
           /\ stages' = Append(stages, IF e = "null" THEN "ext.ok" ELSE "ext.err")
    /\ UNCHANGED <<mpc, diskVars, exitCode>>
    /\ OFrame

\* renameOldVisitorIfNecessary and renameOldVisitor: no visitor file, no
\* copy; else fs.copyFile to the .old path, which may fail
RenameOldVisitorIfNecessary ==
    /\ pc = "rename"
    /\ IF fsVisitor = NoFile
       THEN /\ pc' = WaterfallNext("null", "regenerate")
            /\ stages' = Append(stages, "copy.skip")
            /\ UNCHANGED <<err, fsOld>>
       ELSE \E copied \in BOOLEAN :
               LET e == IF copied THEN "null" ELSE "Could not rename"
               IN  /\ err' = e
                   /\ fsOld' = IF copied THEN fsVisitor ELSE fsOld
                   /\ pc' = WaterfallNext(e, "regenerate")
                   /\ stages' = Append(stages, IF copied THEN "copy.ok" ELSE "copy.err")
    /\ UNCHANGED <<mpc, fsVisitor, exitCode>>
    /\ OFrame

\* regenerateNewVisitor: the generator overwrites the visitor file, or fails
RegenerateNewVisitor ==
    /\ pc = "regenerate"
    /\ \E generated \in BOOLEAN :
          LET e == IF generated THEN "null" ELSE "Could not regenerate"
          IN  /\ err' = e
              /\ fsVisitor' = IF generated THEN genOutput ELSE fsVisitor
              /\ pc' = WaterfallNext(e, "mergeIfOld")
              /\ stages' = Append(stages, IF generated THEN "gen.ok" ELSE "gen.err")
    /\ UNCHANGED <<mpc, fsOld, exitCode>>
    /\ UNCHANGED <<extractVars, variant, oldVisitor, visitor, mergedVisitor,
                   round, firstOutput, argv, genOutput, origFile, runs>>

\* mergeOldVisitorContentsIfOldVisitorExists: no .old file, no merge; else
\* mergeOldVisitorContentsIfDifferent starts with three fresh models
MergeOldVisitorContentsIfOldVisitorExists ==
    /\ pc = "mergeIfOld"
    /\ IF fsOld = NoFile
       THEN /\ pc' = "handleError"
            /\ stages' = Append(stages, "merge.skip")
            /\ UNCHANGED <<mpc, oldVisitor, visitor, mergedVisitor>>
       ELSE /\ pc' = "merge"
            /\ mpc' = "start"
            /\ oldVisitor' = EmptyVisitor /\ visitor' = EmptyVisitor
            /\ mergedVisitor' = EmptyVisitor
            /\ UNCHANGED stages
    /\ UNCHANGED <<err, diskVars, exitCode>>
    /\ UNCHANGED <<extractVars, variant, round, firstOutput, argv, genOutput,
                   origFile, runs>>

\* the merge waterfall's final callback, with its error if any
MergeReturn ==
    /\ pc = "merge"
    /\ mpc \in {"skipped", "written", "readFailed", "writeFailed"}
    /\ err' = CASE mpc = "readFailed" -> "Could not parse visitor lines"
                [] mpc = "writeFailed" -> "Could not generate new visitor file"
                [] OTHER -> "null"
    /\ pc' = "handleError"
    /\ mpc' = "idle"
    /\ UNCHANGED <<stages, diskVars, exitCode>>
    /\ OFrame

\* getFunctionBody's TypeError is caught nowhere: the process dies of it
UncaughtException ==
    /\ pc = "merge"
    /\ mpc = "threw"
    /\ exitCode' = UncaughtExitStatus
    /\ pc' = "exited"
    /\ mpc' = "idle"
    /\ stages' = Append(stages, "crash")
    /\ UNCHANGED <<err, diskVars>>
    /\ OFrame

\* handleError, and the end of the process
HandleError ==
    /\ pc = "handleError"
    /\ exitCode' = HandledExitStatus(err)
    /\ pc' = "exited"
    /\ UNCHANGED <<mpc, stages, err, diskVars>>
    /\ OFrame

\* the tool is invoked again, on the same grammar and the files as they are
Invoke ==
    /\ pc = "exited"
    /\ runs < MaxRuns
    /\ runs' = runs + 1
    /\ pc' = "verifyArgs"
    /\ err' = "null"
    /\ exitCode' = 0
    /\ stages' = <<>>
    /\ oldVisitor' = EmptyVisitor /\ visitor' = EmptyVisitor
    /\ mergedVisitor' = EmptyVisitor
    /\ UNCHANGED <<mpc, diskVars>>
    /\ UNCHANGED <<extractVars, variant, round, firstOutput, argv, genOutput,
                   origFile>>

Next ==
    \/ VerifyNumberOfArguments
    \/ VerifyFileExtension
    \/ RenameOldVisitorIfNecessary
    \/ RegenerateNewVisitor
    \/ MergeOldVisitorContentsIfOldVisitorExists
    \/ MParseOld
    \/ MParseNew
    \/ MEqual
    \/ MMergeFunctions
    \/ MMergeImports
    \/ MMergeLines
    \/ MGenerate
    \/ MergeReturn
    \/ UncaughtException
    \/ HandleError
    \/ Invoke

Spec == Init /\ [][Next]_vars

----------------------------------------------------------------------------
(* Claims on the orchestrator *)

\* C4: a run that ends with an error reported by a stage ends with a
\* non-zero exit status, and a run that ends without error with status zero.
C4_ExitStatus ==
    pc = "exited" =>
        /\ (err # "null" => exitCode # 0)
        /\ ((err = "null" /\ (stages = <<>> \/ stages[Len(stages)] # "crash"))
                => exitCode = 0)

ErrStages == {"args.err", "ext.err", "copy.err", "gen.err", "read.err", "write.err", "crash"}
CopyStages == {"copy.ok", "copy.err"}
GenStages == {"gen.ok", "gen.err"}
MergeStages == {"merge.skip", "read.ok", "read.err", "write.ok", "write.err", "crash"}

\* C5: the stages run in the order verify, backup, regenerate, merge, and a
\* stage acts only after every earlier stage ended without error: nothing
\* follows a failed stage; a copy follows both checks; the generator follows
\* both checks and a made or skipped copy; a read or write of the merge
\* follows the generator's success.  In the first run the .old file exists
\* only by a successful copy and the visitor file changes only after the
\* generator ran.
C5_StageOrder ==
    /\ \A i \in 1..Len(stages) :
           /\ \A k \in 1..(i - 1) : stages[k] \notin ErrStages
           /\ (stages[i] \in CopyStages \cup {"copy.skip"}) =>
                  SubSeq(stages, 1, i - 1) = <<"args.ok", "ext.ok">>
           /\ (stages[i] \in GenStages) =>
                  /\ i = 4
                  /\ SubSeq(stages, 1, 2) = <<"args.ok", "ext.ok">>
                  /\ stages[3] \in {"copy.ok", "copy.skip"}
           /\ (stages[i] \in MergeStages) =>
                  /\ i > 4
                  /\ SubSeq(stages, 1, 2) = <<"args.ok", "ext.ok">>
                  /\ stages[3] \in {"copy.ok", "copy.skip"}
                  /\ stages[4] = "gen.ok"
           /\ (stages[i] \in {"write.ok", "write.err"}) =>
                  /\ i = 7
                  /\ stages[5] = "read.ok" /\ stages[6] = "read.ok"
    /\ (runs = 1 /\ fsOld # NoFile) =>
           \E i \in 1..Len(stages) : stages[i] = "copy.ok"
    /\ (runs = 1 /\ fsVisitor # origFile) =>
           \E i \in 1..Len(stages) : stages[i] = "gen.ok"

\* a run whose copy to the .old path failed has ended: the generator was not
\* invoked and the visitor file is as it was
C5_Witness ==
    /\ pc = "exited"
    /\ stages = <<"args.ok", "ext.ok", "copy.err">>
    /\ fsVisitor # NoFile /\ fsVisitor = origFile /\ fsOld = NoFile

\* the stubs of a file, none if extraction dies on it
StubsOf(file) ==
    IF file = NoFile THEN <<>>
    ELSE LET r == populateVisitorFunctions(file)
         IN  IF r.threw THEN <<>> ELSE r.functions

HasStub(file, name, body) ==
    \E i \in 1..Len(StubsOf(file)) :
        StubsOf(file)[i].name = name /\ StubsOf(file)[i].body = body

\* C10: after any number of runs, every hand-edited stub body of the first
\* visitor file, of a stub the grammar still generates, is in the visitor
\* file or in the .old file.
C10_EditsRecoverable ==
    pc = "exited" =>
        \A i \in 1..Len(StubsOf(origFile)) :
            LET e == StubsOf(origFile)[i]
            IN  (MapHas(StubsOf(genOutput), e.name)
                     /\ e.body # MapGet(StubsOf(genOutput), e.name))
                => (HasStub(fsVisitor, e.name, e.body) \/ HasStub(fsOld, e.name, e.body))

====
